---- MODULE Spec2Model ----
(***************************************************************************)
(* Lifecycle of InternalTexture (src/Materials/Textures/internalTexture.ts) *)
(* reference counting, _rebuild after context loss, and _swapAndDie, the   *)
(* transfer of device handles from a freshly created proxy to the texture  *)
(* client code keeps pointing at.                                          *)
(*                                                                         *)
(* Textures are identified by 1..MaxTex.  A texture constructed without    *)
(* delayAllocation gets the WebGLTexture whose number is its own id, so    *)
(* every engine._createTexture() call returns a handle nobody else holds.  *)
(***************************************************************************)
EXTENDS Integers, Sequences, FiniteSets, TLC

\* ---------------------------------------------------------------- bounds
MaxTex == 3        \* textures that can exist (the initial one plus proxies)
MaxRefs == 2       \* incrementReferences is explored up to this count
MaxNeg == 1        \* dispose is explored down to -MaxNeg references
MaxDim == 2        \* updateSize is called with dimensions 1 and MaxDim
MaxRelease == 1    \* _swapAndDie is called directly into a texture released less often than this

Tex == 1..MaxTex
Null == 0          \* null handle / unset cache field
Applied == 1       \* a sampler value the engine cached on bind

\* ------------------------------------------------- InternalTextureSource
Source ==
    {"Unknown", "Url", "Temp", "Raw", "Dynamic", "RenderTarget",
     "MultiRenderTarget", "Cube", "CubeRaw", "CubePrefiltered", "Raw3D",
     "Raw2DArray", "Depth", "CubeRawRGBD"}

VARIABLES
    tex,        \* tex[t]: the fields of texture t
    nextId,     \* textures 1..nextId-1 have been constructed
    cache,      \* engine.getLoadedTexturesCache(): sequence of textures
    pending,    \* creation calls whose completion callback has not run yet, each
                \* with the handle the texture held when _rebuild was called
    released,   \* released[t]: number of engine._releaseTexture(t) calls
    rgbdWired,  \* InternalTexture._UpdateRGBDAsync has been replaced
    last        \* the operation that produced this state and what it did, in order

vars == <<tex, nextId, cache, pending, released, rgbdWired, last>>

\* ------------------------------------------------------------ the object
\* Field initialisers of the class, then the constructor.
NewTexture(id, source, delayAllocation) ==
    [source |-> source,
     isReady |-> FALSE,
     _references |-> 1,
     _webGLTexture |-> IF delayAllocation THEN Null ELSE id,
     _cachedCoordinatesMode |-> Null,
     _cachedWrapU |-> Null,
     _cachedWrapV |-> Null,
     _cachedWrapR |-> Null,
     _cachedAnisotropicFilteringLevel |-> Null,
     width |-> 0, height |-> 0, depth |-> 0,
     baseWidth |-> 0, baseHeight |-> 0, baseDepth |-> 0,
     _size |-> 0,
     _framebuffer |-> Null,
     _depthStencilBuffer |-> Null,
     _depthStencilTexture |-> Null,
     _isRGBD |-> FALSE,
     _lodTextureHigh |-> Null,
     _lodTextureMid |-> Null,
     _lodTextureLow |-> Null,
     _irradianceTexture |-> Null]

\* A slot of tex that no constructor call has filled yet.
Blank == NewTexture(Null, "Unknown", TRUE)

Constructed == 1..(nextId - 1)

\* The texture client code holds and operates on.  A proxy is a local of
\* _rebuild: besides the callbacks only the engine, which may list it among
\* its loaded textures, reaches it, to dispose it.
Held == {1}

Op(op, self, proxy, old, events) ==
    [op |-> op, self |-> self, proxy |-> proxy, old |-> old, events |-> events]

\* ------------------------------------------------------- registry helpers
Range(s) == {s[i] : i \in 1..Len(s)}

\* cache.indexOf(x): first position of x, 0 for -1
indexOf(s, x) ==
    IF x \in Range(s) THEN CHOOSE i \in 1..Len(s) : s[i] = x /\ \A j \in 1..(i - 1) : s[j] # x
    ELSE 0

\* cache.splice(index, 1)
splice(s, index) == SubSeq(s, 1, index - 1) \o SubSeq(s, index + 1, Len(s))

Count(s, x) == Cardinality({i \in 1..Len(s) : s[i] = x})

NoDuplicates(s) == \A i, j \in 1..Len(s) : s[i] = s[j] => i = j


\* ------------------------------------------------------------ collaborators
\* engine._releaseTexture(texture): the device handle is deleted; the engine
\* may also drop the texture from its loaded-textures list.
_releaseTexture(c, t, drop) ==
    IF drop /\ indexOf(c, t) # 0 THEN splice(c, indexOf(c, t)) ELSE c

\* The source kind the engine's factory gives the proxy it creates for a
\* texture of kind source; createRawCubeTexture serves CubeRaw and CubeRawRGBD.
ProxySource(source) == IF source = "CubeRawRGBD" THEN "CubeRaw" ELSE source

\* The texture the factory of the case returns: a constructed texture with its
\* own handle; the one createDepthStencilTexture returns carries a
\* depth-stencil companion.
createProxy(id, source) ==
    [NewTexture(id, ProxySource(source), FALSE) EXCEPT
        !._depthStencilTexture = IF source = "Depth" THEN id ELSE Null]

\* ----------------------------------------------------------------- _rebuild
\* the reset also putting the reference count back to the initialiser's value
RebuildReset_Recounts(r) ==
    [r EXCEPT !.isReady = FALSE,
              !._references = 1,
              !._cachedCoordinatesMode = Null,
              !._cachedWrapU = Null,
              !._cachedWrapV = Null,
              !._cachedAnisotropicFilteringLevel = Null]

\* The statements before the switch.
RebuildReset(r) ==
    [r EXCEPT !.isReady = FALSE,
              !._cachedCoordinatesMode = Null,
              !._cachedWrapU = Null,
              !._cachedWrapV = Null,
              !._cachedAnisotropicFilteringLevel = Null]

\* What the case of the switch does with the proxy once it is created.
\*   "return"   no proxy is created
\*   "adopt"    proxy._swapAndDie(this); this.isReady = true
\*   "update"   proxy._swapAndDie(this); engine.updateDynamicTexture(this, ...),
\*              which pushes the canvas into the texture it is given
\*   "onLoad"   the callback handed to the factory adopts and sets isReady
\*   "onLoadOpt" as onLoad, the callback receives the proxy or null
\*   "rgbd"     _UpdateRGBDAsync(proxy, ...).then(adopt and set isReady)
\* the switch with the return of case Temp missing: Temp falls into case Url
Recipe_TempFallsThrough(source) ==
    CASE source = "Temp" -> "onLoad"
      [] source = "Url" -> "onLoad"
      [] source = "Raw" -> "adopt"
      [] source = "Raw3D" -> "adopt"
      [] source = "Raw2DArray" -> "adopt"
      [] source = "Dynamic" -> "update"
      [] source = "RenderTarget" -> "adopt"
      [] source = "Depth" -> "adopt"
      [] source = "Cube" -> "onLoad"
      [] source = "CubeRaw" -> "adopt"
      [] source = "CubeRawRGBD" -> "rgbd"
      [] source = "CubePrefiltered" -> "onLoadOpt"
      [] OTHER -> "return"

Recipe(source) ==
    CASE source = "Temp" -> "return"
      [] source = "Url" -> "onLoad"
      [] source = "Raw" -> "adopt"
      [] source = "Raw3D" -> "adopt"
      [] source = "Raw2DArray" -> "adopt"
      [] source = "Dynamic" -> "update"
      [] source = "RenderTarget" -> "adopt"
      [] source = "Depth" -> "adopt"
      [] source = "Cube" -> "onLoad"
      [] source = "CubeRaw" -> "adopt"
      [] source = "CubeRawRGBD" -> "rgbd"
      [] source = "CubePrefiltered" -> "onLoadOpt"
      [] OTHER -> "return"

\* ------------------------------------------------------------- _swapAndDie
\* the assignment written in the direction the call reads: into the proxy
SwapFields_IntoProxy(tx, d, t) ==
    [tx EXCEPT ![d]._webGLTexture = tx[t]._webGLTexture]

\* the framebuffer moved without the test on the proxy's value
SwapFields_AlwaysFramebuffer(tx, d, t) ==
    [tx EXCEPT
        ![t]._webGLTexture = tx[d]._webGLTexture,
        ![t]._isRGBD = tx[d]._isRGBD,
        ![t]._framebuffer = tx[d]._framebuffer,
        ![t]._depthStencilBuffer =
            IF tx[d]._depthStencilBuffer # Null THEN tx[d]._depthStencilBuffer ELSE @,
        ![t]._depthStencilTexture = tx[d]._depthStencilTexture,
        ![t]._lodTextureHigh = IF tx[d]._lodTextureHigh # Null THEN tx[d]._lodTextureHigh ELSE @,
        ![t]._lodTextureMid = IF tx[d]._lodTextureMid # Null THEN tx[d]._lodTextureMid ELSE @,
        ![t]._lodTextureLow = IF tx[d]._lodTextureLow # Null THEN tx[d]._lodTextureLow ELSE @,
        ![t]._irradianceTexture =
            IF tx[d]._irradianceTexture # Null THEN tx[d]._irradianceTexture ELSE @]

\* this = d (the proxy), target = t: the field assignments.
SwapFields(tx, d, t) ==
    [tx EXCEPT
        ![t]._webGLTexture = tx[d]._webGLTexture,
        ![t]._isRGBD = tx[d]._isRGBD,
        ![t]._framebuffer = IF tx[d]._framebuffer # Null THEN tx[d]._framebuffer ELSE @,
        ![t]._depthStencilBuffer =
            IF tx[d]._depthStencilBuffer # Null THEN tx[d]._depthStencilBuffer ELSE @,
        ![t]._depthStencilTexture = tx[d]._depthStencilTexture,
        ![t]._lodTextureHigh = IF tx[d]._lodTextureHigh # Null THEN tx[d]._lodTextureHigh ELSE @,
        ![t]._lodTextureMid = IF tx[d]._lodTextureMid # Null THEN tx[d]._lodTextureMid ELSE @,
        ![t]._lodTextureLow = IF tx[d]._lodTextureLow # Null THEN tx[d]._lodTextureLow ELSE @,
        ![t]._irradianceTexture =
            IF tx[d]._irradianceTexture # Null THEN tx[d]._irradianceTexture ELSE @]

\* the list update without the membership test before the push
SwapCache_AlwaysPush(c, d, t) ==
    LET index == indexOf(c, d)
        c1 == IF index # 0 THEN splice(c, index) ELSE c
    IN  Append(c1, t)

\* The loaded-textures list: drop the proxy, list the target once.
SwapCache(c, d, t) ==
    LET index == indexOf(c, d)
        c1 == IF index # 0 THEN splice(c, index) ELSE c
    IN  IF indexOf(c1, t) = 0 THEN Append(c1, t) ELSE c1

\* the block without the dispose of the target's occupant
SlotEvents_NoDispose(mine, theirs, disposed, set) ==
    IF mine # Null THEN <<set>> ELSE <<>>

\* One of the four sub-texture blocks: if the proxy has one, the target's
\* occupant is disposed (BaseTexture.dispose) and the slot is overwritten.
SlotEvents(mine, theirs, disposed, set) ==
    IF mine # Null
    THEN (IF theirs # Null THEN <<disposed>> ELSE <<>>) \o <<set>>
    ELSE <<>>

\* What _swapAndDie did, in order: the field moves, the sub-texture blocks,
\* then the list updates.
SwapEvents(tx, c, d, t) ==
    LET index == indexOf(c, d)
        c1 == IF index # 0 THEN splice(c, index) ELSE c
    IN  <<"swap">>
        \o SlotEvents(tx[d]._lodTextureHigh, tx[t]._lodTextureHigh, "disposeHigh", "setHigh")
        \o SlotEvents(tx[d]._lodTextureMid, tx[t]._lodTextureMid, "disposeMid", "setMid")
        \o SlotEvents(tx[d]._lodTextureLow, tx[t]._lodTextureLow, "disposeLow", "setLow")
        \o SlotEvents(tx[d]._irradianceTexture, tx[t]._irradianceTexture,
                      "disposeIrradiance", "setIrradiance")
        \o (IF index # 0 THEN <<"splice">> ELSE <<>>)
        \o (IF indexOf(c1, t) = 0 THEN <<"push">> ELSE <<>>)

\* ------------------------------------------------------------------- Init
\* One texture has been constructed, of any source kind, with or without a
\* device handle; the engine may already list it among its loaded textures
\* and, unless it is a Temp placeholder or has no handle, may have finished
\* loading it.
Init ==
    /\ \E source \in Source, delayAllocation \in BOOLEAN, loaded \in BOOLEAN :
          /\ loaded => (source # "Temp" /\ ~delayAllocation)
          /\ tex = [i \in Tex |->
                      IF i = 1
                      THEN [NewTexture(1, source, delayAllocation) EXCEPT !.isReady = loaded]
                      ELSE Blank]
    /\ nextId = 2
    /\ cache \in {<<>>, <<1>>}
    /\ pending = {}
    /\ released = [i \in Tex |-> 0]
    /\ rgbdWired \in BOOLEAN
    /\ last = Op("new", 0, 0, Null, <<>>)

\* ---------------------------------------------------------------- actions
incrementReferences(t) ==
    /\ t \in Held
    /\ tex[t]._references < MaxRefs
    /\ tex' = [tex EXCEPT ![t]._references = @ + 1]
    /\ last' = Op("incrementReferences", t, 0, tex[t]._webGLTexture, <<>>)
    /\ UNCHANGED <<nextId, cache, pending, released, rgbdWired>>

\* the size computed from width and height alone
updateSize_NoDepth(t, width, height, depth, omitted) ==
    /\ t \in Held
    /\ LET d == IF omitted THEN 1 ELSE depth
       IN  tex' = [tex EXCEPT ![t].width = width, ![t].height = height, ![t].depth = d,
                              ![t].baseWidth = width, ![t].baseHeight = height,
                              ![t].baseDepth = d,
                              ![t]._size = width * height]
    /\ last' = Op("updateSize", t, 0, tex[t]._webGLTexture, <<>>)
    /\ UNCHANGED <<nextId, cache, pending, released, rgbdWired>>

\* updateSize(width, height, depth = 1); omitted: called with two arguments
updateSize(t, width, height, depth, omitted) ==
    /\ t \in Held
    /\ LET d == IF omitted THEN 1 ELSE depth
       IN  tex' = [tex EXCEPT ![t].width = width, ![t].height = height, ![t].depth = d,
                              ![t].baseWidth = width, ![t].baseHeight = height,
                              ![t].baseDepth = d,
                              ![t]._size = width * height * d]
    /\ last' = Op("updateSize", t, 0, tex[t]._webGLTexture, <<>>)
    /\ UNCHANGED <<nextId, cache, pending, released, rgbdWired>>

\* dispose without the early return on a null handle
dispose_NoNullCheck(t) ==
    /\ t \in Constructed
    /\ tex[t]._references > 0 - MaxNeg
    /\ IF tex[t]._references - 1 = 0
       THEN /\ tex' = [tex EXCEPT ![t]._references = 0, ![t]._webGLTexture = Null]
            /\ released' = [released EXCEPT ![t] = @ + 1]
            /\ \E drop \in BOOLEAN : cache' = _releaseTexture(cache, t, drop)
            /\ last' = Op("dispose", t, 0, tex[t]._webGLTexture, <<"release">>)
       ELSE /\ tex' = [tex EXCEPT ![t]._references = @ - 1]
            /\ last' = Op("dispose", t, 0, tex[t]._webGLTexture, <<>>)
            /\ UNCHANGED <<cache, released>>
    /\ UNCHANGED <<nextId, pending, rgbdWired>>

\* dispose whose early return tests the reference count instead of the handle
dispose_ChecksCount(t) ==
    /\ t \in Constructed
    /\ IF tex[t]._references = 0
       THEN /\ last' = Op("dispose", t, 0, tex[t]._webGLTexture, <<>>)
            /\ UNCHANGED <<tex, cache, released>>
       ELSE /\ tex[t]._references > 0 - MaxNeg
            /\ IF tex[t]._references - 1 = 0
               THEN /\ tex' = [tex EXCEPT ![t]._references = 0, ![t]._webGLTexture = Null]
                    /\ released' = [released EXCEPT ![t] = @ + 1]
                    /\ \E drop \in BOOLEAN : cache' = _releaseTexture(cache, t, drop)
                    /\ last' = Op("dispose", t, 0, tex[t]._webGLTexture, <<"release">>)
               ELSE /\ tex' = [tex EXCEPT ![t]._references = @ - 1]
                    /\ last' = Op("dispose", t, 0, tex[t]._webGLTexture, <<>>)
                    /\ UNCHANGED <<cache, released>>
    /\ UNCHANGED <<nextId, pending, rgbdWired>>

dispose(t) ==
    /\ t \in Constructed
    /\ IF tex[t]._webGLTexture = Null
       THEN /\ last' = Op("dispose", t, 0, Null, <<>>)
            /\ UNCHANGED <<tex, cache, released>>
       ELSE /\ tex[t]._references > 0 - MaxNeg
            /\ IF tex[t]._references - 1 = 0
               THEN /\ tex' = [tex EXCEPT ![t]._references = 0, ![t]._webGLTexture = Null]
                    /\ released' = [released EXCEPT ![t] = @ + 1]
                    /\ \E drop \in BOOLEAN : cache' = _releaseTexture(cache, t, drop)
                    /\ last' = Op("dispose", t, 0, tex[t]._webGLTexture, <<"release">>)
               ELSE /\ tex' = [tex EXCEPT ![t]._references = @ - 1]
                    /\ last' = Op("dispose", t, 0, tex[t]._webGLTexture, <<>>)
                    /\ UNCHANGED <<cache, released>>
    /\ UNCHANGED <<nextId, pending, rgbdWired>>

\* The engine binds a ready texture for drawing and caches the sampler state
\* it applied in the texture's _cached* fields.
engineBind(t) ==
    /\ t \in Held
    /\ tex[t].isReady
    /\ tex[t]._webGLTexture # Null
    /\ tex[t]._cachedWrapU = Null
    /\ tex' = [tex EXCEPT ![t]._cachedCoordinatesMode = Applied,
                          ![t]._cachedWrapU = Applied,
                          ![t]._cachedWrapV = Applied,
                          ![t]._cachedWrapR = Applied,
                          ![t]._cachedAnisotropicFilteringLevel = Applied]
    /\ last' = Op("engineBind", t, 0, tex[t]._webGLTexture, <<>>)
    /\ UNCHANGED <<nextId, cache, pending, released, rgbdWired>>

\* case Temp, and the kinds the switch has no case for
RebuildReturn(t) ==
    /\ Recipe(tex[t].source) = "return"
    /\ tex' = [tex EXCEPT ![t] = RebuildReset(tex[t])]
    /\ last' = Op("_rebuild", t, 0, tex[t]._webGLTexture, <<"reset">>)
    /\ UNCHANGED <<nextId, cache, pending, released, rgbdWired>>

\* Raw, Raw3D, Raw2DArray, RenderTarget, Depth, CubeRaw
RebuildAdopt(t) ==
    /\ Recipe(tex[t].source) = "adopt"
    /\ nextId <= MaxTex
    /\ LET proxy == nextId
           created == [tex EXCEPT ![t] = RebuildReset(tex[t]),
                                  ![proxy] = createProxy(proxy, tex[t].source)]
           swapped == SwapFields(created, proxy, t)
       IN  /\ tex' = [swapped EXCEPT ![t].isReady = TRUE]
           /\ cache' = SwapCache(cache, proxy, t)
           /\ last' = Op("_rebuild", t, proxy, tex[t]._webGLTexture,
                         <<"reset", "create">> \o SwapEvents(created, cache, proxy, t) \o <<"ready">>)
    /\ nextId' = nextId + 1
    /\ UNCHANGED <<pending, released, rgbdWired>>

\* case Dynamic with its two statements after the creation exchanged: the
\* canvas is pushed before the proxy's handle has been adopted
RebuildUpdate_PushBeforeSwap(t) ==
    /\ Recipe(tex[t].source) = "update"
    /\ nextId <= MaxTex
    /\ LET proxy == nextId
           created == [tex EXCEPT ![t] = RebuildReset(tex[t]),
                                  ![proxy] = createProxy(proxy, tex[t].source)]
       IN  /\ tex' = SwapFields(created, proxy, t)
           /\ cache' = SwapCache(cache, proxy, t)
           /\ last' = Op("_rebuild", t, proxy, tex[t]._webGLTexture,
                         <<"reset", "create", "update(this)">> \o SwapEvents(created, cache, proxy, t))
    /\ nextId' = nextId + 1
    /\ UNCHANGED <<pending, released, rgbdWired>>

\* Dynamic
RebuildUpdate(t) ==
    /\ Recipe(tex[t].source) = "update"
    /\ nextId <= MaxTex
    /\ LET proxy == nextId
           created == [tex EXCEPT ![t] = RebuildReset(tex[t]),
                                  ![proxy] = createProxy(proxy, tex[t].source)]
       IN  /\ tex' = SwapFields(created, proxy, t)
           /\ cache' = SwapCache(cache, proxy, t)
           /\ last' = Op("_rebuild", t, proxy, tex[t]._webGLTexture,
                         <<"reset", "create">> \o SwapEvents(created, cache, proxy, t) \o <<"update(this)">>)
    /\ nextId' = nextId + 1
    /\ UNCHANGED <<pending, released, rgbdWired>>

\* Url, Cube, CubePrefiltered: the factory keeps the callback for later
RebuildOnLoad(t) ==
    /\ Recipe(tex[t].source) \in {"onLoad", "onLoadOpt"}
    /\ nextId <= MaxTex
    /\ LET proxy == nextId
       IN  /\ tex' = [tex EXCEPT ![t] = RebuildReset(tex[t]),
                                 ![proxy] = createProxy(proxy, tex[t].source)]
           /\ pending' = pending \cup {[self |-> t, proxy |-> proxy, recipe |-> Recipe(tex[t].source),
                                        old |-> tex[t]._webGLTexture]}
           /\ last' = Op("_rebuild", t, proxy, tex[t]._webGLTexture, <<"reset", "create">>)
    /\ nextId' = nextId + 1
    /\ UNCHANGED <<cache, released, rgbdWired>>

\* case CubeRawRGBD with a default _UpdateRGBDAsync that returns a promise like
\* the wired one: the continuation is kept whether or not the decode is wired
RebuildRGBD_Resolves(t) ==
    /\ Recipe(tex[t].source) = "rgbd"
    /\ nextId <= MaxTex
    /\ LET proxy == nextId
       IN  /\ tex' = [tex EXCEPT ![t] = RebuildReset(tex[t]),
                                 ![proxy] = createProxy(proxy, tex[t].source)]
           /\ pending' = pending \cup {[self |-> t, proxy |-> proxy, recipe |-> "rgbd",
                                        old |-> tex[t]._webGLTexture]}
           /\ last' = Op("_rebuild", t, proxy, tex[t]._webGLTexture, <<"reset", "create">>)
    /\ nextId' = nextId + 1
    /\ UNCHANGED <<cache, released, rgbdWired>>

\* CubeRawRGBD: the default _UpdateRGBDAsync throws inside the call
RebuildRGBD(t) ==
    /\ Recipe(tex[t].source) = "rgbd"
    /\ nextId <= MaxTex
    /\ LET proxy == nextId
       IN  /\ tex' = [tex EXCEPT ![t] = RebuildReset(tex[t]),
                                 ![proxy] = createProxy(proxy, tex[t].source)]
           /\ IF rgbdWired
              THEN /\ pending' = pending \cup {[self |-> t, proxy |-> proxy, recipe |-> "rgbd",
                                             old |-> tex[t]._webGLTexture]}
                   /\ last' = Op("_rebuild", t, proxy, tex[t]._webGLTexture, <<"reset", "create">>)
              ELSE /\ pending' = pending
                   /\ last' = Op("_rebuild", t, proxy, tex[t]._webGLTexture,
                                 <<"reset", "create", "throw">>)
    /\ nextId' = nextId + 1
    /\ UNCHANGED <<cache, released, rgbdWired>>

_rebuild(t) ==
    /\ t \in Held
    /\ \/ RebuildReturn(t)
       \/ RebuildAdopt(t)
       \/ RebuildUpdate(t)
       \/ RebuildOnLoad(t)
       \/ RebuildRGBD(t)

\* the CubePrefiltered callback returning on a null proxy before isReady is set
Complete_NullReturns(t, d) ==
    \E p \in pending :
    /\ p.self = t
    /\ p.proxy = d
    /\ \E given \in BOOLEAN :
          /\ p.recipe # "onLoadOpt" => given
          /\ IF given
             THEN /\ tex' = [SwapFields(tex, p.proxy, p.self) EXCEPT ![p.self].isReady = TRUE]
                  /\ cache' = SwapCache(cache, p.proxy, p.self)
                  /\ last' = Op("complete", p.self, p.proxy, tex[p.self]._webGLTexture,
                                SwapEvents(tex, cache, p.proxy, p.self) \o <<"ready">>)
             ELSE /\ tex' = tex
                  /\ cache' = cache
                  /\ last' = Op("complete", p.self, 0, tex[p.self]._webGLTexture, <<>>)
    /\ pending' = pending \ {p}
    /\ UNCHANGED <<nextId, released, rgbdWired>>

\* the callbacks adopting only into a texture that is not ready yet: the
\* first completion wins
Complete_FirstWins(t, d) ==
    \E p \in pending :
    /\ p.self = t
    /\ p.proxy = d
    /\ \E given \in BOOLEAN :
          /\ p.recipe # "onLoadOpt" => given
          /\ IF given /\ ~tex[p.self].isReady
             THEN /\ tex' = [SwapFields(tex, p.proxy, p.self) EXCEPT ![p.self].isReady = TRUE]
                  /\ cache' = SwapCache(cache, p.proxy, p.self)
                  /\ last' = Op("complete", p.self, p.proxy, tex[p.self]._webGLTexture,
                                SwapEvents(tex, cache, p.proxy, p.self) \o <<"ready">>)
             ELSE /\ tex' = [tex EXCEPT ![p.self].isReady = TRUE]
                  /\ cache' = cache
                  /\ last' = Op("complete", p.self, IF given THEN p.proxy ELSE 0,
                                tex[p.self]._webGLTexture, <<"ready">>)
    /\ pending' = pending \ {p}
    /\ UNCHANGED <<nextId, released, rgbdWired>>

\* A completion callback (or the then() of the decode promise) runs.
Complete(t, d) ==
    \E p \in pending :
    /\ p.self = t
    /\ p.proxy = d
    /\ \E given \in BOOLEAN :
          /\ p.recipe # "onLoadOpt" => given
          /\ IF given
             THEN /\ tex' = [SwapFields(tex, p.proxy, p.self) EXCEPT ![p.self].isReady = TRUE]
                  /\ cache' = SwapCache(cache, p.proxy, p.self)
                  /\ last' = Op("complete", p.self, p.proxy, tex[p.self]._webGLTexture,
                                SwapEvents(tex, cache, p.proxy, p.self) \o <<"ready">>)
             ELSE /\ tex' = [tex EXCEPT ![p.self].isReady = TRUE]
                  /\ cache' = cache
                  /\ last' = Op("complete", p.self, 0, tex[p.self]._webGLTexture, <<"ready">>)
    /\ pending' = pending \ {p}
    /\ UNCHANGED <<nextId, released, rgbdWired>>

\* proxy._swapAndDie(target) called on two existing textures.
_swapAndDie(d, t) ==
    /\ d \in Constructed
    /\ t \in Constructed
    /\ d # t
    /\ tex' = SwapFields(tex, d, t)
    /\ cache' = SwapCache(cache, d, t)
    /\ last' = Op("_swapAndDie", t, d, tex[t]._webGLTexture, SwapEvents(tex, cache, d, t))
    /\ UNCHANGED <<nextId, pending, released, rgbdWired>>

\* ---------------------------------------------------------- specifications
Next ==
    \/ \E t \in Tex : incrementReferences(t)
    \/ \E t \in Tex : dispose(t)
    \/ \E t \in Tex : engineBind(t)
    \/ \E t \in Tex : _rebuild(t)
    \/ \E t, d \in Tex : Complete(t, d)

Spec == Init /\ [][Next]_vars

\* Only the two reference-counting operations.
NextRef ==
    \/ \E t \in Tex : incrementReferences(t)
    \/ \E t \in Tex : dispose(t)

SpecRef == Init /\ [][NextRef]_vars

\* proxy._swapAndDie(target) on its own: every texture exists, each with or
\* without a device handle, and the loaded-textures list is any list without
\* duplicates.  _swapAndDie never reads the source kind, left at the field
\* initialiser's value here.
InitAdopt ==
    /\ \E delayAllocation \in [Tex -> BOOLEAN] :
          tex = [i \in Tex |-> NewTexture(i, "Unknown", delayAllocation[i])]
    /\ nextId = MaxTex + 1
    /\ cache \in {c \in UNION {[1..n -> Tex] : n \in 0..MaxTex} : NoDuplicates(c)}
    /\ pending = {}
    /\ released = [i \in Tex |-> 0]
    /\ rgbdWired = FALSE
    /\ last = Op("new", 0, 0, Null, <<>>)

NextAdopt == \E d, t \in Tex : _swapAndDie(d, t)

SpecAdopt == InitAdopt /\ [][NextAdopt]_vars

\* Every operation of the class on the held texture, with the completions:
\* Next without the engine's binds, plus updateSize(width, MaxDim, MaxDim),
\* updateSize(width, MaxDim) and _swapAndDie called from an existing proxy
\* into the held texture.
Dims == {1, MaxDim}

NextCore ==
    \/ \E t \in Tex : incrementReferences(t)
    \/ \E t \in Held : dispose(t)
    \/ \E t \in Tex : _rebuild(t)
    \/ \E t, d \in Tex : Complete(t, d)
    \/ \E t \in Tex, width \in Dims, omitted \in BOOLEAN :
          updateSize(t, width, MaxDim, MaxDim, omitted)
    \/ \E d \in Tex \ Held, t \in Held : released[t] < MaxRelease /\ _swapAndDie(d, t)

\* Init; _UpdateRGBDAsync is read by case CubeRawRGBD only and is left at its
\* default for a texture of any other kind.
InitCore ==
    /\ Init
    /\ rgbdWired => tex[1].source = "CubeRawRGBD"

SpecCore == InitCore /\ [][NextCore]_vars

\* _swapAndDie and the fields it moves: every texture exists.  Going down
\* the assignments of _swapAndDie, a texture has every other field populated
\* or none of them (a: handle, framebuffer, depth-stencil companion, LOD-mid,
\* irradiance) and independently the fields in between (b: RGBD flag,
\* depth-stencil buffer, LOD-high, LOD-low); what texture i owns is numbered i.
InitFields ==
    /\ \E a \in [Tex -> BOOLEAN], b \in [Tex -> BOOLEAN] :
          tex = [i \in Tex |->
                   [NewTexture(i, "Unknown", ~a[i]) EXCEPT
                       !._isRGBD = b[i],
                       !._framebuffer = IF a[i] THEN i ELSE Null,
                       !._depthStencilBuffer = IF b[i] THEN i ELSE Null,
                       !._depthStencilTexture = IF a[i] THEN i ELSE Null,
                       !._lodTextureHigh = IF b[i] THEN i ELSE Null,
                       !._lodTextureMid = IF a[i] THEN i ELSE Null,
                       !._lodTextureLow = IF b[i] THEN i ELSE Null,
                       !._irradianceTexture = IF a[i] THEN i ELSE Null]]
    /\ nextId = MaxTex + 1
    /\ cache = <<>>
    /\ pending = {}
    /\ released = [i \in Tex |-> 0]
    /\ rgbdWired = FALSE
    /\ last = Op("new", 0, 0, Null, <<>>)

NextFields == \E d \in Tex \ Held, t \in Held : _swapAndDie(d, t)

SpecFields == InitFields /\ [][NextFields]_vars

TypeOK ==
    /\ nextId \in 2..(MaxTex + 1)
    /\ \A t \in Tex : /\ tex[t].source \in Source
                      /\ tex[t]._webGLTexture \in {Null} \cup Tex
                      /\ tex[t]._references \in (0 - MaxNeg)..MaxRefs
    /\ Range(cache) \subseteq Constructed
    /\ \A p \in pending : p.self \in Constructed /\ p.proxy \in Constructed

\* ------------------------------------------------------------------ claims
Handle(t) == tex[t]._webGLTexture

Before(events, a, b) ==
    \E i, j \in 1..Len(events) : i < j /\ events[i] = a /\ events[j] = b

\* C1 (SpecRef): over incrementReferences and dispose calls alone,
\* engine._releaseTexture is called on a texture only by the dispose that takes
\* its count from 1 to 0, every step that takes the count to 0 makes that
\* call, and no texture is released a second time.
C1_ReleaseExactlyOnce ==
    [][\A t \in Tex :
          /\ released'[t] # released[t] =>
                /\ released[t] = 0
                /\ released'[t] = 1
                /\ tex[t]._references = 1
                /\ tex'[t]._references = 0
                /\ last'.op = "dispose"
                /\ last'.self = t
          /\ (tex[t]._references # 0 /\ tex'[t]._references = 0) =>
                released'[t] = released[t] + 1]_vars

\* A dispose that did nothing on a texture already released, whose count an
\* incrementReferences had raised again.
C1_Witness ==
    /\ last.op = "dispose"
    /\ last.self = 1
    /\ last.events = <<>>
    /\ released[1] = 1
    /\ Handle(1) = Null
    /\ tex[1]._references >= 1

\* C2: no device handle is held by two textures, and after
\* proxy._swapAndDie(target) the target holds the proxy's handle and the
\* proxy holds none.
C2_SingleOwner ==
    /\ \A a, b \in Constructed : (a # b /\ Handle(a) # Null) => Handle(a) # Handle(b)
    /\ (last.proxy # 0 /\ "swap" \in Range(last.events)) =>
          (Handle(last.self) = last.proxy /\ Handle(last.proxy) = Null)

\* C3: the reference count of every texture is at least 0.
C3_NonNegative == \A t \in Constructed : tex[t]._references >= 0

\* C4: a texture whose reference count is 0 holds no device handle.
C4_ReleasedHasNoHandle ==
    \A t \in Constructed : tex[t]._references = 0 => Handle(t) = Null

\* C5 (SpecAdopt): after proxy._swapAndDie(target) on a list without
\* duplicates the list holds the target once and not the proxy, and the other
\* members are the same, in the same order.
C5_RegistryCoherent ==
    [][(last'.op = "_swapAndDie" /\ NoDuplicates(cache)) =>
          LET Other(x) == x \notin {last'.self, last'.proxy}
          IN  /\ Count(cache', last'.self) = 1
              /\ Count(cache', last'.proxy) = 0
              /\ SelectSeq(cache', Other) = SelectSeq(cache, Other)]_vars

\* The proxy was listed and the target was not, next to a third member.
C5_Witness ==
    /\ last.op = "_swapAndDie"
    /\ last.events = <<"swap", "splice", "push">>
    /\ Len(cache) >= 2

\* C6: when _rebuild returns on a Raw, Raw3D, Raw2DArray, RenderTarget, Depth
\* or CubeRaw texture, the texture is ready and holds the handle of the proxy
\* created in that call, not the one it held before, and adoption came
\* before isReady = true.
C6_SyncRebuildAdopts ==
    (/\ last.op = "_rebuild"
     /\ tex[last.self].source \in {"Raw", "Raw3D", "Raw2DArray", "RenderTarget", "Depth", "CubeRaw"})
    => /\ tex[last.self].isReady
       /\ last.proxy # 0
       /\ Handle(last.self) = last.proxy
       /\ Handle(last.self) # last.old
       /\ Before(last.events, "create", "swap")
       /\ Before(last.events, "swap", "ready")

\* A Depth texture that held a handle has been rebuilt.
C6_Witness ==
    /\ last.op = "_rebuild"
    /\ tex[1].source = "Depth"
    /\ last.old = 1
    /\ Handle(1) = 2
    /\ tex[1].isReady

\* C7: a texture with a pending recreation is not ready.
C7_NotReadyWhilePending == \A p \in pending : ~tex[p.self].isReady

\* C8: after _rebuild has begun the texture is not ready until the call sets
\* it, and its five cached sampler fields are null.
C8_SamplerCacheInvalidated ==
    last.op = "_rebuild" =>
       /\ last.events[1] = "reset"
       /\ tex[last.self].isReady => "ready" \in Range(last.events)
       /\ tex[last.self]._cachedCoordinatesMode = Null
       /\ tex[last.self]._cachedWrapU = Null
       /\ tex[last.self]._cachedWrapV = Null
       /\ tex[last.self]._cachedWrapR = Null
       /\ tex[last.self]._cachedAnisotropicFilteringLevel = Null

\* C9: _rebuild on a Temp, Unknown or MultiRenderTarget texture creates no
\* proxy, adopts nothing, leaves the list, every handle and the pending
\* completions as they were and the texture not ready; no completion is ever
\* pending for such a texture and nothing makes it ready afterwards.
C9_NoRecipeKinds ==
    [][\A t \in Held :
          tex[t].source \in {"Temp", "Unknown", "MultiRenderTarget"} =>
             /\ (last'.op = "_rebuild" /\ last'.self = t) =>
                   /\ nextId' = nextId
                   /\ last'.proxy = 0
                   /\ last'.events = <<"reset">>
                   /\ cache' = cache
                   /\ \A u \in Tex : tex'[u]._webGLTexture = tex[u]._webGLTexture
                   /\ pending' = pending
                   /\ ~tex'[t].isReady
             /\ \A p \in pending' : p.self # t
             /\ ~tex[t].isReady => ~tex'[t].isReady]_vars

\* A MultiRenderTarget texture that was ready and bound has been rebuilt.
C9_Witness ==
    /\ last.op = "_rebuild"
    /\ tex[1].source = "MultiRenderTarget"
    /\ Handle(1) = 1
    /\ tex[1]._cachedWrapR = Applied
    /\ ~tex[1].isReady

\* C10: dispose on a texture whose handle is null changes no field, list or
\* pending completion and calls nothing on the engine.
C10_DisposeIdempotent ==
    [][(last'.op = "dispose" /\ tex[last'.self]._webGLTexture = Null) =>
          /\ UNCHANGED <<tex, nextId, cache, pending, released, rgbdWired>>
          /\ last'.events = <<>>]_vars

\* A second dispose in a row after the count reached 0.
C10_Witness ==
    /\ last.op = "dispose"
    /\ last.old = Null
    /\ last.events = <<>>
    /\ tex[1]._references = 0
    /\ released[1] >= 1

\* C11: after updateSize(w, h, d) the current and the base dimensions are
\* w, h, d (d is 1 when the argument is omitted) and the byte-size estimate
\* is w * h * d, for the calls NextCore makes; the estimate is the product of
\* the current dimensions in every state, whatever else was called.
C11_SizeIsProduct ==
    [][/\ last'.op = "updateSize" =>
             \A t \in Held, width \in Dims, omitted \in BOOLEAN :
                updateSize(t, width, MaxDim, MaxDim, omitted) =>
                   LET d == IF omitted THEN 1 ELSE MaxDim
                       r == tex'[t]
                   IN  /\ r.width = width /\ r.baseWidth = width
                       /\ r.height = MaxDim /\ r.baseHeight = MaxDim
                       /\ r.depth = d /\ r.baseDepth = d
                       /\ r._size = width * MaxDim * d
       /\ \A t \in Tex : LET r == tex'[t] IN r._size = r.width * r.height * r.depth]_vars

\* updateSize(1, MaxDim, MaxDim) was called, and the texture was rebuilt from a
\* proxy before or after it
C11_Witness ==
    /\ last.op = "updateSize"
    /\ tex[1].width = 1 /\ tex[1].height = MaxDim /\ tex[1].depth = MaxDim
    /\ tex[1]._size = MaxDim * MaxDim
    /\ Handle(1) = 2

\* C12: for each of the four sub-texture slots of _swapAndDie(target): when
\* the proxy's slot is set and the target holds a different sub-texture there,
\* the target's is disposed exactly once, before the slot is overwritten, and
\* the slot then holds the proxy's; when the proxy's slot is null the target's
\* slot keeps its value and nothing of that slot is disposed.
SlotKept(mine, theirs, after, events, disposed, set) ==
    /\ (mine # Null /\ theirs # Null /\ theirs # mine) =>
          /\ Count(events, disposed) = 1
          /\ Count(events, set) = 1
          /\ Before(events, disposed, set)
          /\ after = mine
    /\ mine = Null =>
          /\ after = theirs
          /\ Count(events, disposed) = 0
          /\ Count(events, set) = 0

C12_SlotDisposedOnce ==
    [][last'.op = "_swapAndDie" =>
          LET d == last'.proxy
              t == last'.self
              e == last'.events
          IN  /\ SlotKept(tex[d]._lodTextureHigh, tex[t]._lodTextureHigh,
                          tex'[t]._lodTextureHigh, e, "disposeHigh", "setHigh")
              /\ SlotKept(tex[d]._lodTextureMid, tex[t]._lodTextureMid,
                          tex'[t]._lodTextureMid, e, "disposeMid", "setMid")
              /\ SlotKept(tex[d]._lodTextureLow, tex[t]._lodTextureLow,
                          tex'[t]._lodTextureLow, e, "disposeLow", "setLow")
              /\ SlotKept(tex[d]._irradianceTexture, tex[t]._irradianceTexture,
                          tex'[t]._irradianceTexture, e, "disposeIrradiance", "setIrradiance")]_vars

\* texture 1 held all four sub-textures; the proxy had LOD-high and LOD-low
\* only: those two were disposed and replaced, the other two stayed
C12_Witness ==
    /\ last.op = "_swapAndDie"
    /\ last.self = 1
    /\ last.events = <<"swap", "disposeHigh", "setHigh", "disposeLow", "setLow", "push">>
    /\ tex[1]._lodTextureHigh = last.proxy
    /\ tex[1]._lodTextureLow = last.proxy
    /\ tex[1]._lodTextureMid = 1
    /\ tex[1]._irradianceTexture = 1

\* C13: the completion callback of a CubePrefiltered rebuild that receives
\* null marks the texture ready and leaves its handle and the loaded-textures
\* list as they were; one that receives a proxy adopts from it and then marks
\* the texture ready.
C13_PrefilteredNullDonor ==
    [][(last'.op = "complete" /\ tex[last'.self].source = "CubePrefiltered") =>
          LET t == last'.self
          IN  IF last'.proxy = 0
              THEN /\ tex'[t].isReady
                   /\ tex'[t]._webGLTexture = tex[t]._webGLTexture
                   /\ cache' = cache
                   /\ "swap" \notin Range(last'.events)
              ELSE /\ tex'[t].isReady
                   /\ tex'[t]._webGLTexture = tex[last'.proxy]._webGLTexture
                   /\ Before(last'.events, "swap", "ready")]_vars

\* a loaded CubePrefiltered texture was rebuilt and its callback got null: it
\* is ready again with the handle it had
C13_Witness ==
    /\ last.op = "complete"
    /\ last.proxy = 0
    /\ tex[1].source = "CubePrefiltered"
    /\ tex[1].isReady
    /\ Handle(1) = 1
    /\ nextId = 3

\* C14: _rebuild of a CubeRawRGBD texture while _UpdateRGBDAsync is the
\* default throws out of the call after the proxy is allocated: no
\* continuation is left behind, nothing is adopted, the handle and the
\* loaded-textures list are as before the call and the texture is not ready.
C14_UnwiredDecodeThrows ==
    [][/\ (last'.op = "_rebuild" /\ tex[last'.self].source = "CubeRawRGBD" /\ ~rgbdWired) =>
             LET t == last'.self
             IN  /\ Before(last'.events, "create", "throw")
                 /\ "swap" \notin Range(last'.events)
                 /\ pending' = pending
                 /\ tex'[t]._webGLTexture = tex[t]._webGLTexture
                 /\ cache' = cache
                 /\ ~tex'[t].isReady
       /\ \A p \in pending' : p.recipe = "rgbd" => rgbdWired]_vars

\* a loaded CubeRawRGBD texture after the throwing _rebuild
C14_Witness ==
    /\ last.op = "_rebuild"
    /\ tex[1].source = "CubeRawRGBD"
    /\ ~rgbdWired
    /\ last.events = <<"reset", "create", "throw">>
    /\ last.proxy = 2
    /\ Handle(1) = 1
    /\ ~tex[1].isReady
    /\ pending = {}

\* C15: when _rebuild of a Depth texture returns, the texture is ready, its
\* depth-stencil companion is set, and its cached wrap fields and cached
\* anisotropy are null.
C15_DepthRebuilt ==
    (last.op = "_rebuild" /\ tex[last.self].source = "Depth") =>
        /\ tex[last.self].isReady
        /\ tex[last.self]._depthStencilTexture # Null
        /\ tex[last.self]._cachedWrapU = Null
        /\ tex[last.self]._cachedWrapV = Null
        /\ tex[last.self]._cachedWrapR = Null
        /\ tex[last.self]._cachedAnisotropicFilteringLevel = Null

\* C16: _swapAndDie(target) moves the framebuffer and the depth-stencil buffer
\* only when the proxy's is set, so the target keeps its own otherwise; the
\* handle, the RGBD flag and the depth-stencil companion are always the
\* proxy's afterwards.
C16_ConditionalBuffers ==
    [][last'.op = "_swapAndDie" =>
          LET d == last'.proxy
              t == last'.self
          IN  /\ tex'[t]._framebuffer =
                    IF tex[d]._framebuffer # Null THEN tex[d]._framebuffer ELSE tex[t]._framebuffer
              /\ tex'[t]._depthStencilBuffer =
                    IF tex[d]._depthStencilBuffer # Null THEN tex[d]._depthStencilBuffer
                    ELSE tex[t]._depthStencilBuffer
              /\ tex[t]._framebuffer # Null => tex'[t]._framebuffer # Null
              /\ tex[t]._depthStencilBuffer # Null => tex'[t]._depthStencilBuffer # Null
              /\ tex'[t]._webGLTexture = tex[d]._webGLTexture
              /\ tex'[t]._isRGBD = tex[d]._isRGBD
              /\ tex'[t]._depthStencilTexture = tex[d]._depthStencilTexture]_vars

\* the proxy had neither buffer, no handle and no companion: texture 1 kept
\* its two buffers and lost its handle and its companion
C16_Witness ==
    /\ last.op = "_swapAndDie"
    /\ last.self = 1
    /\ last.old = 1
    /\ tex[last.proxy]._framebuffer = Null
    /\ tex[last.proxy]._depthStencilBuffer = Null
    /\ tex[1]._framebuffer = 1
    /\ tex[1]._depthStencilBuffer = 1
    /\ Handle(1) = Null
    /\ tex[1]._depthStencilTexture = Null
    /\ ~tex[1]._isRGBD

\* C17: _rebuild of a Dynamic texture allocates the proxy, adopts its handle
\* and only then pushes the canvas, into the texture itself; it does not set
\* isReady.
C17_DynamicPushAfterAdopt ==
    (last.op = "_rebuild" /\ tex[last.self].source = "Dynamic") =>
        /\ last.proxy # 0
        /\ Handle(last.self) = Handle(last.proxy)
        /\ Handle(last.self) # Null
        /\ Before(last.events, "create", "swap")
        /\ Before(last.events, "swap", "update(this)")
        /\ "ready" \notin Range(last.events)
        /\ ~tex[last.self].isReady

\* a loaded Dynamic texture was rebuilt
C17_Witness ==
    /\ last.op = "_rebuild"
    /\ tex[1].source = "Dynamic"
    /\ last.old = 1
    /\ last.proxy = 2
    /\ Handle(1) = 2
    /\ ~tex[1].isReady

\* C18: engine._releaseTexture is never called on a handle that another
\* texture with a positive reference count holds.
C18_ReleaseNotShared ==
    (last.op = "dispose" /\ "release" \in Range(last.events)) =>
        \A u \in Constructed \ {last.self} :
            ~(Handle(u) = last.old /\ tex[u]._references > 0)

\* C19: Url and Cube textures rebuilt again before the first completion has
\* run: every completion leaves the texture ready, holding the handle of the
\* proxy that completion was for, listed once, and that proxy not listed; once
\* no completion is outstanding no proxy is listed; and while one is
\* outstanding the texture is never ready with the handle it had when that
\* rebuild was requested.
C19_OverlappingRebuilds ==
    [][\A t \in Held : tex[t].source \in {"Url", "Cube"} =>
          /\ (last'.op = "complete" /\ last'.self = t) =>
                /\ tex'[t].isReady
                /\ last'.proxy # 0
                /\ tex'[t]._webGLTexture = tex[last'.proxy]._webGLTexture
                /\ Count(cache', t) = 1
                /\ Count(cache', last'.proxy) = 0
                /\ {p \in pending' : p.self = t} = {} =>
                      \A d \in Tex \ Held : Count(cache', d) = 0
          /\ \A p \in pending' :
                (p.self = t /\ p.old # Null /\ tex'[t].isReady) =>
                    tex'[t]._webGLTexture # p.old]_vars

\* two rebuilds of a Url or Cube texture, the completion for the second proxy
\* ran first and the one for the first proxy last: the texture holds the
\* first proxy's handle
C19_Witness ==
    /\ last.op = "complete"
    /\ last.self = 1
    /\ last.proxy = 2
    /\ last.old = 3
    /\ tex[1].source \in {"Url", "Cube"}
    /\ pending = {}
    /\ tex[1].isReady
    /\ Handle(1) = 2
    /\ Count(cache, 1) = 1

\* C20: the reference count of a texture changes only in incrementReferences
\* (by one up) and in dispose (by one down, or not at all when the handle is
\* null); the source kind of a texture never changes after construction.
C20_OnlyRefOpsCount ==
    [][\A t \in Constructed :
          /\ tex'[t].source = tex[t].source
          /\ tex'[t]._references =
                IF last'.op = "incrementReferences" /\ last'.self = t
                THEN tex[t]._references + 1
                ELSE IF last'.op = "dispose" /\ last'.self = t /\ tex[t]._webGLTexture # Null
                THEN tex[t]._references - 1
                ELSE tex[t]._references]_vars

\* the count was raised to 2, and a rebuild and its completion left it there
C20_Witness ==
    /\ last.op = "complete"
    /\ last.self = 1
    /\ tex[1]._references = 2
    /\ Handle(1) = 2
    /\ tex[2]._references = 1
====
